---- MODULE Spec2Model ----
(***************************************************************************)
(* Hotel booking backend: the role-based admission control (rate limiting) *)
(* of index.ts and the in-memory activity log of                           *)
(* middleware/activityLogger.ts, with the Express middleware chain that    *)
(* connects them.                                                          *)
(*                                                                         *)
(* Paths are sequences of segments: "/api/admin/test" is                   *)
(* <<"api", "admin", "test">> and "/" is << >>.                            *)
(*                                                                         *)
(* The rate limiters are instances of express-rate-limit with its default  *)
(* in-memory store and default key (the client address, req.ip): a store   *)
(* entry is {totalHits, resetTime}, made on the first hit of a key, reset  *)
(* when resetTime has passed, incremented on every hit that is not         *)
(* skipped; the request is rejected (429) when totalHits > max.            *)
(***************************************************************************)
EXTENDS Integers, Sequences, FiniteSets, TLC

VARIABLES
  now,          \* the clock (Date.now()), in milliseconds
  limiterStore, \* [limiter -> [client address -> [totalHits, resetTime]]]
  activities,   \* the activity log (activityLogger.ts: const activities)
  appended,     \* history: every record pushed since the log was last emptied
  listed,       \* history: per window, the hits made by requests for a listed path
  last,         \* observation of the last operation: its input and outcome
  client,       \* the credential the client of this run presents
  users,        \* the User collection: [user id -> document]
  inflight      \* requests whose handler awaits, and the order of arrivals and responses

vars == <<now, limiterStore, activities, appended, listed, last, client, users, inflight>>

(***************************************************************************)
(* Bounds of the model.  The four ceilings and the log capacity stand for  *)
(* the source's 500, 300, 100, 50 and 10000 (index.ts max:, and            *)
(* MAX_ACTIVITIES): the code only ever compares a count with them, so they *)
(* are scaled down, keeping their order.                                   *)
(***************************************************************************)
hotelOwnerMax == 4
userMax == 3
anonMax == 2
paymentMax == 1
MAX_ACTIVITIES == 3
MaxOverrun == 1     \* hits a client may make beyond a ceiling
MaxTicks == 2       \* clock steps per behaviour
MaxAppended == 4    \* records pushed between two clears
MaxLimit == 4       \* largest limit a query is called with
defaultLimit == 1   \* stands for the 100 of Number(req.query.limit) || 100
limitCap == 2       \* stands for the 1000 of Math.min(..., 1000)
MaxAdminRecords == 2     \* records pushed in one run of the admin router's specifications

windowMs == 15 * 60 * 1000
TickMs == windowMs \div 2

undefined == "undefined"

IPs == {"10.0.0.1", "10.0.0.2"}
Limiters == {"hotelOwnerLimiter", "userLimiter", "anonLimiter", "paymentLimiter"}

max(limiter) ==
  CASE limiter = "hotelOwnerLimiter" -> hotelOwnerMax
    [] limiter = "userLimiter" -> userMax
    [] limiter = "anonLimiter" -> anonMax
    [] limiter = "paymentLimiter" -> paymentMax

(***************************************************************************)
(* Paths                                                                   *)
(***************************************************************************)
IsPrefix(p, s) == Len(p) <= Len(s) /\ SubSeq(s, 1, Len(p)) = p

\* Express strips the mount path of app.use(mount, ...) from req.url.
StripMount(mount, url) == SubSeq(url, Len(mount) + 1, Len(url))

\* String.prototype.includes for a path made of whole segments
Includes(path, part) ==
  \E i \in 0..(Len(path) - Len(part)) : SubSeq(path, i + 1, i + Len(part)) = part

\* the literals roleBasedRateLimiter compares req.path with
bypassLiterals ==
  { <<"api", "health">>, <<"api", "status">>,
    <<"api", "auth", "validate-token">>, <<"api", "auth", "google-callback">> }

\* app.use("/api/hotels/*/bookings/payment-intent", ...): a prefix match,
\* the star standing for any run of characters
MatchesPaymentMount(url) ==
  /\ IsPrefix(<<"api", "hotels">>, url)
  /\ \E k \in 2..(Len(url) - 2) :
       url[k + 1] = "bookings" /\ url[k + 2] = "payment-intent"

(***************************************************************************)
(* Credentials.  A token is one of the names below; jwt.verify succeeds on *)
(* the signed ones and yields the payload {userId, userRole}.              *)
(***************************************************************************)
SignedTokens == {"jwt_admin", "jwt_owner", "jwt_user", "jwt_norole", "jwt_guest"}
BadTokens == {"jwt_bad"}     \* malformed, expired or wrongly signed

jwtVerify(token) ==
  CASE token = "jwt_admin" -> [ok |-> TRUE, userId |-> "u_admin", userRole |-> "admin"]
    [] token = "jwt_owner" -> [ok |-> TRUE, userId |-> "u_owner", userRole |-> "hotel_owner"]
    [] token = "jwt_user" -> [ok |-> TRUE, userId |-> "u_user", userRole |-> "user"]
    [] token = "jwt_norole" -> [ok |-> TRUE, userId |-> "u_old", userRole |-> undefined]
    [] token = "jwt_guest" -> [ok |-> TRUE, userId |-> "u_guest", userRole |-> "guest"]
    [] OTHER -> [ok |-> FALSE, userId |-> undefined, userRole |-> undefined]

\* a variant that decodes the token without verifying it
getUserRoleFromToken_unverified(token) ==
  IF token = undefined
  THEN "anonymous"
  ELSE LET decoded == jwtVerify(token)
       IN IF ~decoded.ok \/ decoded.userRole = undefined THEN "user"
          ELSE decoded.userRole

getUserRoleFromToken(token) ==
  IF token = undefined
  THEN "anonymous"
  ELSE LET decoded == jwtVerify(token)
       IN IF ~decoded.ok THEN "anonymous"
          ELSE IF decoded.userRole = undefined THEN "user"
          ELSE decoded.userRole

(***************************************************************************)
(* Requests.  bearer is the token of an "Authorization: Bearer <token>"    *)
(* header (undefined: no such header), cookie the session_id cookie.       *)
(***************************************************************************)
Request(ip, method, url, bearer, cookie) ==
  [ip |-> ip, method |-> method, url |-> url, bearer |-> bearer, cookie |-> cookie]

NoRequest == Request("none", "none", << >>, undefined, undefined)

\* req.cookies?.["session_id"]: req.cookies is set by cookieParser() and is
\* undefined before it has run
sessionCookie(q, parsed) == IF parsed THEN q.cookie ELSE undefined

\* authHeader?.startsWith("Bearer ") ? authHeader.substring(7)
\*                                   : req.cookies?.["session_id"]
ExtractToken(q, parsed) ==
  IF q.bearer # undefined
  THEN q.bearer
  ELSE sessionCookie(q, parsed)

\* The limiters are mounted before cookieParser() (index.ts 186, 206, 309).
limiterToken(q) == ExtractToken(q, FALSE)

(***************************************************************************)
(* express-rate-limit                                                      *)
(***************************************************************************)
NoClient == [totalHits |-> 0, resetTime |-> 0]

\* a variant whose windows never expire
increment_neverExpires(store, key, t) ==
  LET c == store[key]
      w == IF c.totalHits = 0 THEN [totalHits |-> 0, resetTime |-> t + windowMs] ELSE c
  IN [store EXCEPT ![key] = [w EXCEPT !.totalHits = @ + 1]]

\* MemoryStore.increment(key) at time t
increment(store, key, t) ==
  LET c == store[key]
      w == IF c.totalHits = 0 \/ c.resetTime <= t
           THEN [totalHits |-> 0, resetTime |-> t + windowMs]
           ELSE c
  IN [store EXCEPT ![key] = [w EXCEPT !.totalHits = @ + 1]]

\* a variant with one counter per limiter, whatever the client address
rateLimit_keyedByRole(S, limiter, skip, q, t) ==
  IF skip
  THEN [store |-> S, out |-> "next", via |-> "skip"]
  ELSE LET st == increment(S[limiter], "10.0.0.1", t)
       IN [store |-> [S EXCEPT ![limiter] = st],
           out |-> IF st["10.0.0.1"].totalHits > max(limiter) THEN "429" ELSE "next",
           via |-> limiter]

\* a variant that rejects at the ceiling without counting the rejected request
rateLimit_rejectedUncounted(S, limiter, skip, q, t) ==
  LET c == S[limiter][q.ip]
  IN IF skip
     THEN [store |-> S, out |-> "next", via |-> "skip"]
     ELSE IF c.totalHits >= max(limiter) /\ c.resetTime > t
     THEN [store |-> S, out |-> "429", via |-> limiter]
     ELSE [store |-> [S EXCEPT ![limiter] = increment(S[limiter], q.ip, t)],
           out |-> "next", via |-> limiter]

\* one rateLimit({windowMs, max, skip}) middleware: skipped requests are not
\* counted; the others are counted, then rejected when over the ceiling
rateLimit(S, limiter, skip, q, t) ==
  IF skip
  THEN [store |-> S, out |-> "next", via |-> "skip"]
  ELSE LET st == increment(S[limiter], q.ip, t)
       IN [store |-> [S EXCEPT ![limiter] = st],
           out |-> IF st[q.ip].totalHits > max(limiter) THEN "429" ELSE "next",
           via |-> limiter]

roleLimiterOf(userRole) ==
  CASE userRole = "hotel_owner" -> "hotelOwnerLimiter"
    [] userRole = "user" -> "userLimiter"
    [] OTHER -> "anonLimiter"

\* roleBasedRateLimiter, called with req.path (the url less its mount path)
roleBasedRateLimiter(S, q, reqPath, t) ==
  IF reqPath \in bypassLiterals
  THEN [store |-> S, out |-> "next", via |-> "bypass"]
  ELSE LET userRole == getUserRoleFromToken(limiterToken(q))
       IN IF userRole = "admin"
          THEN [store |-> S, out |-> "next", via |-> "admin"]
          ELSE rateLimit(S, roleLimiterOf(userRole), FALSE, q, t)

\* a variant whose skip test is inverted
paymentLimiter_skipInverted(S, q, t) ==
  rateLimit(S, "paymentLimiter",
            getUserRoleFromToken(limiterToken(q)) # "admin", q, t)

\* paymentLimiter: skip admins
paymentLimiter(S, q, t) ==
  rateLimit(S, "paymentLimiter",
            getUserRoleFromToken(limiterToken(q)) = "admin", q, t)

\* a variant that admits and rejects alike but charges no window
Admission_uncharged(S, q, t) ==
  LET r == IF IsPrefix(<<"api">>, q.url)
           THEN roleBasedRateLimiter(S, q, StripMount(<<"api">>, q.url), t)
           ELSE [store |-> S, out |-> "next", via |-> "unmounted"]
      p == IF r.out = "next" /\ MatchesPaymentMount(q.url)
           THEN paymentLimiter(r.store, q, t)
           ELSE [store |-> r.store, out |-> "next", via |-> "none"]
  IN [store |-> S,
      admitted |-> r.out = "next" /\ p.out = "next",
      roleVia |-> r.via, roleOut |-> r.out,
      payVia |-> p.via, payOut |-> p.out]

\* a variant that mounts the payment limiter before the role-based limiter
Admission_paymentFirst(S, q, t) ==
  LET p == IF MatchesPaymentMount(q.url)
           THEN paymentLimiter(S, q, t)
           ELSE [store |-> S, out |-> "next", via |-> "none"]
      r == IF p.out = "next" /\ IsPrefix(<<"api">>, q.url)
           THEN roleBasedRateLimiter(p.store, q, StripMount(<<"api">>, q.url), t)
           ELSE [store |-> p.store, out |-> "next", via |-> "unmounted"]
  IN [store |-> r.store,
      admitted |-> r.out = "next" /\ p.out = "next",
      roleVia |-> r.via, roleOut |-> r.out,
      payVia |-> p.via, payOut |-> p.out]

\* app.use("/api/", roleBasedRateLimiter) then
\* app.use("/api/hotels/*/bookings/payment-intent", paymentLimiter)
Admission(S, q, t) ==
  LET r == IF IsPrefix(<<"api">>, q.url)
           THEN roleBasedRateLimiter(S, q, StripMount(<<"api">>, q.url), t)
           ELSE [store |-> S, out |-> "next", via |-> "unmounted"]
      p == IF r.out = "next" /\ MatchesPaymentMount(q.url)
           THEN paymentLimiter(r.store, q, t)
           ELSE [store |-> r.store, out |-> "next", via |-> "none"]
  IN [store |-> p.store,
      admitted |-> r.out = "next" /\ p.out = "next",
      roleVia |-> r.via, roleOut |-> r.out,
      payVia |-> p.via, payOut |-> p.out]

(***************************************************************************)
(* Activity log (middleware/activityLogger.ts)                             *)
(***************************************************************************)
undefinedNumber == 0 - 1     \* an absent numeric field

Activity(userId, timestamp, method, path, ip, userAgent, statusCode, params, query, duration, message) ==
  [userId |-> userId, timestamp |-> timestamp, method |-> method, path |-> path,
   ip |-> ip, userAgent |-> userAgent, statusCode |-> statusCode,
   params |-> params, query |-> query, duration |-> duration, message |-> message]

\* an absent path
undefinedPath == <<undefined>>

\* a Partial<Activity> with no field set
EmptyEntry ==
  Activity(undefined, undefinedNumber, undefined, undefinedPath, undefined, undefined,
           undefinedNumber, undefined, undefined, undefinedNumber, undefined)

\* a || b on strings and on numbers
OrElse(a, b) == IF a = undefined \/ a = "" THEN b ELSE a
OrElseNumber(a, b) == IF a = undefinedNumber \/ a = 0 THEN b ELSE a

\* a || b where a is a Date or undefined: a Date object is truthy
OrElseDate(a, b) == IF a = undefinedNumber THEN b ELSE a

\* a variant that drops the newest record instead of the oldest
push_dropsNewest(acts, activity) ==
  LET s == Append(acts, activity)
  IN IF Len(s) > MAX_ACTIVITIES THEN SubSeq(s, 1, MAX_ACTIVITIES) ELSE s

\* a variant that puts the new record in front (unshift) and drops the last
push_unshift(acts, activity) ==
  LET s == <<activity>> \o acts
  IN IF Len(s) > MAX_ACTIVITIES THEN SubSeq(s, 1, MAX_ACTIVITIES) ELSE s

\* activities.push(activity); if (activities.length > MAX_ACTIVITIES) activities.shift()
push(acts, activity) ==
  LET s == Append(acts, activity)
  IN IF Len(s) > MAX_ACTIVITIES THEN Tail(s) ELSE s

isImportantOperation(method, path) ==
  \/ method \in {"POST", "PUT", "PATCH", "DELETE"}
  \/ Includes(path, <<"api", "admin">>)
  \/ Includes(path, <<"api", "auth">>)

\* the res.send replacement installed by activityLogger, called with the
\* request as it is when the response is sent
recordFromRequest(acts, activity) ==
  IF isImportantOperation(activity.method, activity.path)
  THEN push(acts, activity)
  ELSE acts

\* a variant that gives a missing userId the default "system"
logActivityRecord_systemActor(entry, t) ==
  Activity(OrElse(entry.userId, "system"),
           OrElseDate(entry.timestamp, t),
           OrElse(entry.method, "SYSTEM"),
           IF entry.path = undefinedPath THEN <<"internal">> ELSE entry.path,
           OrElse(entry.ip, "127.0.0.1"),
           OrElse(entry.userAgent, "system"),
           entry.statusCode, entry.params, entry.query,
           OrElseNumber(entry.duration, 0),
           entry.message)

\* logActivity(entry), at time t
logActivityRecord(entry, t) ==
  Activity(entry.userId,
           OrElseDate(entry.timestamp, t),
           OrElse(entry.method, "SYSTEM"),
           IF entry.path = undefinedPath THEN <<"internal">> ELSE entry.path,
           OrElse(entry.ip, "127.0.0.1"),
           OrElse(entry.userAgent, "system"),
           entry.statusCode, entry.params, entry.query,
           OrElseNumber(entry.duration, 0),
           entry.message)

\* a variant that filters like the automatic recorder
logActivity_filtered(acts, entry, t) ==
  recordFromRequest(acts, logActivityRecord(entry, t))

logActivity(acts, entry, t) == push(acts, logActivityRecord(entry, t))

\* a variant that spares the newest record
clearActivityLogs_keepsNewest(acts) ==
  IF Len(acts) > 1 THEN << acts[Len(acts)] >> ELSE << >>

\* clearActivityLogs()
clearActivityLogs(acts) == << >>

\* if (x) on a string | undefined
Truthy(x) == x # undefined /\ x # ""

\* Array.prototype.slice(start), start an integer
slice(seq, start) ==
  LET k == IF start < 0
           THEN (IF Len(seq) + start < 0 THEN 0 ELSE Len(seq) + start)
           ELSE (IF start > Len(seq) THEN Len(seq) ELSE start)
  IN SubSeq(seq, k + 1, Len(seq))

\* Array.prototype.reverse()
reverse(seq) == [i \in 1..Len(seq) |-> seq[Len(seq) + 1 - i]]

\* a variant that keeps the oldest matching records instead of the newest
getActivityLogs_oldest(acts, userId, method, limit) ==
  LET byUser(a) == a.userId = userId
      byMethod(a) == a.method = method
      f1 == IF Truthy(userId) THEN SelectSeq(acts, byUser) ELSE acts
      f2 == IF Truthy(method) THEN SelectSeq(f1, byMethod) ELSE f1
  IN reverse(SubSeq(f2, 1, IF limit < Len(f2) THEN limit ELSE Len(f2)))

\* a variant that reads a limit of 0 as "no records"
getActivityLogs_zeroEmpty(acts, userId, method, limit) ==
  LET byUser(a) == a.userId = userId
      byMethod(a) == a.method = method
      f1 == IF Truthy(userId) THEN SelectSeq(acts, byUser) ELSE acts
      f2 == IF Truthy(method) THEN SelectSeq(f1, byMethod) ELSE f1
  IN IF limit = 0 THEN << >> ELSE reverse(slice(f2, 0 - limit))

\* getActivityLogs(userId?, method?, limit)
getActivityLogs(acts, userId, method, limit) ==
  LET byUser(a) == a.userId = userId
      byMethod(a) == a.method = method
      f1 == IF Truthy(userId) THEN SelectSeq(acts, byUser) ELSE acts
      f2 == IF Truthy(method) THEN SelectSeq(f1, byMethod) ELSE f1
  IN reverse(slice(f2, 0 - limit))

\* getLoginLogs(userId?, limit)
getLoginLogs(acts, userId, limit) ==
  LET login(a) == a.path = <<"api", "auth", "login">> /\ a.statusCode = 200
      byUser(a) == a.userId = userId
      f1 == SelectSeq(acts, login)
      f2 == IF Truthy(userId) THEN SelectSeq(f1, byUser) ELSE f1
  IN reverse(slice(f2, 0 - limit))

null == 0 - 2     \* JavaScript's null, where a timestamp is expected

Verbs == {"GET", "POST", "PUT", "PATCH", "DELETE"}

\* a variant that counts the records without actor as one more user
getActivityStats_countsAbsent(acts) ==
  [totalActivities |-> Len(acts),
   totalUsers |-> Cardinality({ acts[i].userId : i \in 1..Len(acts) }),
   activitiesByMethod |->
     [m \in Verbs |-> Cardinality({ i \in 1..Len(acts) : acts[i].method = m })],
   lastActivity |-> IF Len(acts) = 0 THEN null ELSE acts[Len(acts)].timestamp]

\* getActivityStats()
getActivityStats(acts) ==
  [totalActivities |-> Len(acts),
   totalUsers |-> Cardinality({ u \in { acts[i].userId : i \in 1..Len(acts) } : Truthy(u) }),
   activitiesByMethod |->
     [m \in Verbs |-> Cardinality({ i \in 1..Len(acts) : acts[i].method = m })],
   lastActivity |-> IF Len(acts) = 0 THEN null ELSE acts[Len(acts)].timestamp]

(***************************************************************************)
(* Authentication middleware (middleware/auth.ts), run after cookieParser  *)
(***************************************************************************)
verifyToken(q) ==
  LET token == ExtractToken(q, TRUE)
      decoded == jwtVerify(token)
  IN IF token = undefined \/ ~decoded.ok
     THEN [status |-> 401, userId |-> undefined, userRole |-> undefined]
     ELSE [status |-> 200, userId |-> decoded.userId, userRole |-> decoded.userRole]

\* a variant that lets every verified caller pass
adminGate_anyRole(q) == verifyToken(q)

\* verifyToken, verifyRole("admin"): the status the pair answers, 200 to go on
adminGate(q) ==
  LET v == verifyToken(q)
  IN IF v.status # 200 THEN v
     ELSE IF v.userRole # "admin" THEN [v EXCEPT !.status = 403]
     ELSE v

(***************************************************************************)
(* Routes.  A handled request yields its status and, in order, what it     *)
(* does to the activity log: "send" is one call of the res.send            *)
(* replacement (with req.path, req.params and req.userId as they are       *)
(* then), "logActivity" a call of logActivity, "clear" of                  *)
(* clearActivityLogs.                                                      *)
(***************************************************************************)
UserAgent == "Mozilla"

Send(q, userId, path, status, params, d, t) ==
  [kind |-> "send",
   a |-> Activity(userId, t, q.method, path, q.ip, UserAgent, status,
                  params, undefined, d, undefined)]

Log(entry) == [kind |-> "logActivity", a |-> entry]
Clear == [kind |-> "clear", a |-> EmptyEntry]

Reply(status, effects) == [status |-> status, effects |-> effects]

adminMount == <<"api", "admin">>
hotelsMount == <<"api", "hotels">>

\* the 404 handler of index.ts, at the application level: req.path is whole
notFound(q, d, t) ==
  Reply(404, << Send(q, undefined, q.url, 404, undefined, d, t) >>)

\* app.get("/") and app.get("/api/status")
appRoutes(q, d, t) ==
  Reply(200, << Send(q, undefined, q.url, 200, undefined, d, t) >>)

\* a handler whose await never settles sends no response
NoReply == Reply(0, << >>)

\* routes/hotels.ts GET "/"
listHotels(q, db, d, t) ==
  LET one(status) == Send(q, undefined, StripMount(hotelsMount, q.url), status, undefined, d, t)
  IN IF db = "pending" THEN NoReply
     ELSE IF db = "error" THEN Reply(500, << one(500) >>)
     ELSE Reply(200, << one(200) >>)

\* routes/hotels.ts POST "/:hotelId/bookings/payment-intent"
paymentIntent(q, db, d, t) ==
  LET v == verifyToken(q)
      path == StripMount(hotelsMount, q.url)
      one(status) == Send(q, v.userId, path, status, "hotelId", d, t)
  IN IF v.status # 200 THEN Reply(401, << one(401) >>)
     ELSE IF db = "pending" THEN NoReply
     ELSE IF db = "missing" THEN Reply(400, << one(400) >>)
     ELSE Reply(200, << one(200), one(200) >>)   \* res.send(object) calls res.json, which calls res.send

\* a variant in which the recorder is mounted before the limiters
tooManyRequests_recorded(q, d, t) ==
  Reply(429, << Send(q, undefined, q.url, 429, undefined, d, t) >>)

\* the 429 of a limiter (index.ts 186, 206): activityLogger (314) has not
\* run, res.send is Express's own
tooManyRequests(q, d, t) == Reply(429, << >>)

\* a variant that clears the log after the response is sent
deleteActivityLogs_clearsLast(q, d, t) ==
  LET g == adminGate(q)
      sent == Send(q, g.userId, StripMount(adminMount, q.url), g.status, undefined, d, t)
  IN IF g.status # 200 THEN Reply(g.status, << sent >>)
     ELSE Reply(200, << sent, Clear >>)

\* routes/admin.ts GET "/test"
adminTest(q, d, t) ==
  Reply(200, << Send(q, undefined, StripMount(adminMount, q.url), 200, undefined, d, t) >>)

\* routes/admin.ts PATCH "/hotels/:hotelId/approve" -> approveHotel
approveHotel(q, db, d, t) ==
  LET g == adminGate(q)
      path == StripMount(adminMount, q.url)
  IN IF g.status # 200
     THEN Reply(g.status, << Send(q, g.userId, path, g.status, "hotelId", d, t) >>)
     ELSE IF db = "missing"
     THEN \* AppError(404) -> asyncHandler -> next(error) -> errorHandler
          Reply(404, << Send(q, g.userId, q.url, 404, undefined, d, t) >>)
     ELSE Reply(200,
            << Send(q, g.userId, path, 200, "hotelId", d, t),
               Log([EmptyEntry EXCEPT !.userId = g.userId, !.method = "PATCH",
                                      !.path = q.url, !.params = "hotelId",
                                      !.query = "action=approve"]) >>)

\* routes/activity-logs.ts GET "/activity-logs"
listActivityLogs(q, d, t) ==
  LET g == adminGate(q)
  IN Reply(g.status,
       << Send(q, g.userId, StripMount(adminMount, q.url), g.status, undefined, d, t) >>)

\* routes/activity-logs.ts DELETE "/activity-logs"
deleteActivityLogs(q, d, t) ==
  LET g == adminGate(q)
      sent == Send(q, g.userId, StripMount(adminMount, q.url), g.status, undefined, d, t)
  IN IF g.status # 200 THEN Reply(g.status, << sent >>)
     ELSE Reply(200, << Clear, sent >>)

\* Numbers are counted in halves, so that 0.5 is 1 and 1 is 2; NaN is apart.
NaN == [nan |-> TRUE, halves |-> 0]
Num(halves) == [nan |-> FALSE, halves |-> halves]

\* the values of the limit query parameter: absent, not a number, zero,
\* negative, a fraction, small, and larger than the cap and the log
LimitParams == {undefined, "abc", "0", "-1", "-0.5", "1", "2", "1.5", "9"}

\* Number(value) of a query parameter
Number(value) ==
  CASE value = "0" -> Num(0)
    [] value = "-1" -> Num(0 - 2)
    [] value = "-0.5" -> Num(0 - 1)
    [] value = "1" -> Num(2)
    [] value = "1.5" -> Num(3)
    [] value = "2" -> Num(4)
    [] value = "9" -> Num(18)
    [] OTHER -> NaN          \* undefined, "abc"

\* x || n and Math.min(x, n), n an integer
NumberOr(x, n) == IF x.nan \/ x.halves = 0 THEN Num(2 * n) ELSE x
MathMin(x, n) == IF x.nan THEN NaN ELSE IF x.halves < 2 * n THEN x ELSE Num(2 * n)

\* ToIntegerOrInfinity, which slice applies to its argument: towards zero
ToIntegerOrInfinity(x) ==
  IF x.nan THEN 0
  ELSE IF x.halves >= 0 THEN x.halves \div 2 ELSE 0 - ((0 - x.halves) \div 2)

ListQueries == [userId : {undefined, "u_admin"}, method : {undefined}, limit : LimitParams]

\* routes/activity-logs.ts GET "/activity-logs": the data of the response
listActivityLogsData(acts, query) ==
  LET limit == MathMin(NumberOr(Number(query.limit), defaultLimit), limitCap)
  IN getActivityLogs(acts, query.userId, query.method, ToIntegerOrInfinity(limit))

\* routes/activity-logs.ts GET "/activity-logs/stats"
statsActivityLogs(q, d, t) ==
  LET g == adminGate(q)
  IN Reply(g.status,
       << Send(q, g.userId, StripMount(adminMount, q.url), g.status, undefined, d, t) >>)

authMount == <<"api", "auth">>

\* routes/auth.ts POST "/login" (not among the sources: a handler of the
\* router mounted at /api/auth that answers 200 when the credentials of the
\* body are right and 400 when they are not, without setting req.userId)
login(q, db, d, t) ==
  LET status == IF db = "found" THEN 200 ELSE 400
  IN Reply(status, << Send(q, undefined, StripMount(authMount, q.url), status, undefined, d, t) >>)

\* approveHotel when recording throws once: fault "send" in the res.send
\* replacement, which has no try; fault "logActivity" in logActivity, which
\* approveHotel calls in a try after it has answered
approveHotelFaulty(q, db, d, t, fault) ==
  LET g == adminGate(q)
  IN IF fault = "send"
     THEN \* the exception leaves res.json; Express (or asyncHandler) passes it to
          \* errorHandler, which answers 500 at the application level
          Reply(500, << Send(q, g.userId, q.url, 500, undefined, d, t) >>)
     ELSE IF g.status = 200 /\ db = "found"
     THEN \* catch (e) { console.warn(...) }
          Reply(200, << Send(q, g.userId, StripMount(adminMount, q.url), 200, "hotelId", d, t) >>)
     ELSE approveHotel(q, db, d, t)

\* the documents of the User collection (models/user.ts): role, isActive and
\* the hashed password; a user id without document maps to NoUser
UserIds == {"u_admin", "u_user", "u_none"}

User(role, isActive, password) ==
  [exists |-> TRUE, role |-> role, isActive |-> isActive, password |-> password]

NoUser == [exists |-> FALSE, role |-> undefined, isActive |-> FALSE, password |-> undefined]

Registered ==
  [id \in UserIds |->
     CASE id = "u_admin" -> User("admin", TRUE, "hash_admin")
       [] id = "u_user" -> User("user", TRUE, "hash_user")
       [] OTHER -> NoUser]

\* The body of a request to the admin router: isActive is "true" or "false"
\* for the JSON booleans and any other string for a value of another type.
Body(isActive, role, reason) == [isActive |-> isActive, role |-> role, reason |-> reason]
NoBody == Body(undefined, undefined, undefined)

\* typeof v === "boolean"
typeofBoolean(v) == v \in {"true", "false"}

\* a call of the res.send replacement for a request with a body: message is
\* (req.body && (req.body.reason || req.body.message)) || undefined
SendBody(q, body, userId, path, status, params, d, t) ==
  [kind |-> "send",
   a |-> Activity(userId, t, q.method, path, q.ip, UserAgent, status,
                  params, undefined, d, OrElse(body.reason, undefined))]

\* what a controller leaves: its reply and the User collection
Outcome(reply, U) == [reply |-> reply, users |-> U]

\* verifyToken or verifyRole("admin") answering 401 / 403 inside the router
gateReply(q, body, g, params, d, t) ==
  Reply(g.status,
        << SendBody(q, body, g.userId, StripMount(adminMount, q.url), g.status, params, d, t) >>)

\* throw new AppError(message, status) -> asyncHandler -> next(error) ->
\* errorHandler, at the application level: req.path is whole, req.params empty
appError(q, body, g, status, d, t) ==
  Reply(status, << SendBody(q, body, g.userId, q.url, status, undefined, d, t) >>)

\* res.status(200).json(...) inside the router
ok(q, body, g, params, d, t) ==
  SendBody(q, body, g.userId, StripMount(adminMount, q.url), 200, params, d, t)

\* adminController.ts toggleUserStatus: PATCH "/users/:userId"
toggleUserStatus(q, userId, body, U, d, t) ==
  LET g == adminGate(q)
  IN IF g.status # 200 THEN Outcome(gateReply(q, body, g, "userId", d, t), U)
     ELSE IF ~typeofBoolean(body.isActive) THEN Outcome(appError(q, body, g, 400, d, t), U)
     ELSE IF ~U[userId].exists THEN Outcome(appError(q, body, g, 404, d, t), U)
     ELSE IF U[userId].role = "admin" THEN Outcome(appError(q, body, g, 403, d, t), U)
     ELSE Outcome(Reply(200, << ok(q, body, g, "userId", d, t) >>),
                  [U EXCEPT ![userId].isActive = (body.isActive = "true")])

\* adminController.ts deleteUser: DELETE "/users/:userId"
deleteUser(q, userId, body, U, d, t) ==
  LET g == adminGate(q)
  IN IF g.status # 200 THEN Outcome(gateReply(q, body, g, "userId", d, t), U)
     ELSE IF ~U[userId].exists THEN Outcome(appError(q, body, g, 404, d, t), U)
     ELSE IF U[userId].role = "admin" THEN Outcome(appError(q, body, g, 403, d, t), U)
     ELSE Outcome(Reply(200, << ok(q, body, g, "userId", d, t) >>),
                  [U EXCEPT ![userId] = NoUser])

\* the query of the explicit record of a role change: { newRole: role }
newRoleQuery(role) ==
  CASE role = "user" -> "newRole=user"
    [] role = "hotel_owner" -> "newRole=hotel_owner"
    [] OTHER -> "newRole=admin"

\* the explicit record of a controller: logActivity({userId: req.userId,
\* method, path, params, query, message})
explicit(q, g, params, query, message) ==
  Log([EmptyEntry EXCEPT !.userId = g.userId, !.method = q.method, !.path = q.url,
                         !.params = params, !.query = query, !.message = message])

\* a variant that accepts every role that is given
changeUserRole_anyRole(q, userId, body, U, d, t) ==
  LET g == adminGate(q)
      role == body.role
  IN IF g.status # 200 THEN Outcome(gateReply(q, body, g, "userId", d, t), U)
     ELSE IF ~Truthy(role) THEN Outcome(appError(q, body, g, 400, d, t), U)
     ELSE IF ~U[userId].exists THEN Outcome(appError(q, body, g, 404, d, t), U)
     ELSE IF U[userId].role = "admin" THEN Outcome(appError(q, body, g, 403, d, t), U)
     ELSE Outcome(Reply(200, << ok(q, body, g, "userId", d, t),
                                explicit(q, g, "targetUserId", newRoleQuery(role), undefined) >>),
                  [U EXCEPT ![userId].role = role])

\* adminController.ts changeUserRole: PATCH "/users/:userId/role"
changeUserRole(q, userId, body, U, d, t) ==
  LET g == adminGate(q)
      role == body.role
  IN IF g.status # 200 THEN Outcome(gateReply(q, body, g, "userId", d, t), U)
     ELSE IF ~Truthy(role) \/ (role # "user" /\ role # "hotel_owner")
     THEN Outcome(appError(q, body, g, 400, d, t), U)
     ELSE IF ~U[userId].exists THEN Outcome(appError(q, body, g, 404, d, t), U)
     ELSE IF U[userId].role = "admin" THEN Outcome(appError(q, body, g, 403, d, t), U)
     ELSE Outcome(Reply(200, << ok(q, body, g, "userId", d, t),
                                explicit(q, g, "targetUserId", newRoleQuery(role), undefined) >>),
                  [U EXCEPT ![userId].role = role])

\* adminController.ts resetUserPassword: POST "/users/:userId/reset-password";
\* the temporary password is hashed by the pre-save hook of the model
resetUserPassword(q, userId, body, U, d, t) ==
  LET g == adminGate(q)
  IN IF g.status # 200 THEN Outcome(gateReply(q, body, g, "userId", d, t), U)
     ELSE IF ~U[userId].exists THEN Outcome(appError(q, body, g, 404, d, t), U)
     ELSE IF U[userId].role = "admin" THEN Outcome(appError(q, body, g, 403, d, t), U)
     ELSE Outcome(Reply(200, << ok(q, body, g, "userId", d, t),
                                explicit(q, g, "targetUserId", "action=reset-password", undefined) >>),
                  [U EXCEPT ![userId].password = "hash_temp"])

\* the note of the explicit record of a rejection
rejectionNote(reason) ==
  IF Truthy(reason) THEN "Rejected: " \o reason ELSE "Rejected without reason"

\* a variant that logs before it looks the hotel up and answers
rejectHotel_logsFirst(q, body, db, d, t) ==
  LET g == adminGate(q)
      note == explicit(q, g, "hotelId", "action=reject", rejectionNote(body.reason))
  IN IF g.status # 200 THEN gateReply(q, body, g, "hotelId", d, t)
     ELSE IF db = "missing"
     THEN Reply(404, << note, SendBody(q, body, g.userId, q.url, 404, undefined, d, t) >>)
     ELSE Reply(200, << note, ok(q, body, g, "hotelId", d, t) >>)

\* adminController.ts rejectHotel: PATCH "/hotels/:hotelId/reject"
rejectHotel(q, body, db, d, t) ==
  LET g == adminGate(q)
  IN IF g.status # 200 THEN gateReply(q, body, g, "hotelId", d, t)
     ELSE IF db = "missing" THEN appError(q, body, g, 404, d, t)
     ELSE Reply(200, << ok(q, body, g, "hotelId", d, t),
                        explicit(q, g, "hotelId", "action=reject",
                                 rejectionNote(body.reason)) >>)

\* adminController.ts setHotelActive: PATCH "/hotels/:hotelId/active"
setHotelActive(q, body, db, d, t) ==
  LET g == adminGate(q)
  IN IF g.status # 200 THEN gateReply(q, body, g, "hotelId", d, t)
     ELSE IF ~typeofBoolean(body.isActive) THEN appError(q, body, g, 400, d, t)
     ELSE IF db = "missing" THEN appError(q, body, g, 404, d, t)
     ELSE Reply(200, << ok(q, body, g, "hotelId", d, t),
                        explicit(q, g, "hotelId",
                                 IF body.isActive = "true" THEN "isActive=true"
                                 ELSE "isActive=false", undefined) >>)

\* the routes of routes/admin.ts that manage users and hotels; a request for
\* one of them has five or four segments, the fourth the user or hotel id
adminRoute(q, body, db, U, d, t) ==
  LET id == q.url[4]
      leaf == IF Len(q.url) = 5 THEN q.url[5] ELSE ""
  IN CASE q.url[3] = "users" /\ q.method = "PATCH" /\ leaf = ""
            -> toggleUserStatus(q, id, body, U, d, t)
       [] q.url[3] = "users" /\ q.method = "PATCH" /\ leaf = "role"
            -> changeUserRole(q, id, body, U, d, t)
       [] q.url[3] = "users" /\ q.method = "POST" /\ leaf = "reset-password"
            -> resetUserPassword(q, id, body, U, d, t)
       [] q.url[3] = "users" /\ q.method = "DELETE" /\ leaf = ""
            -> deleteUser(q, id, body, U, d, t)
       [] q.url[3] = "hotels" /\ q.method = "PATCH" /\ leaf = "approve"
            -> Outcome(approveHotel(q, db, d, t), U)
       [] q.url[3] = "hotels" /\ q.method = "PATCH" /\ leaf = "reject"
            -> Outcome(rejectHotel(q, body, db, d, t), U)
       [] q.url[3] = "hotels" /\ q.method = "PATCH" /\ leaf = "active"
            -> Outcome(setHotelActive(q, body, db, d, t), U)
       [] OTHER -> Outcome(notFound(q, d, t), U)

\* the routes of index.ts in the order they are registered
route(q, db, d, t) ==
  CASE q.method = "GET" /\ q.url \in { << >>, <<"api", "status">> } -> appRoutes(q, d, t)
    [] q.method = "POST" /\ q.url = <<"api", "auth", "login">> -> login(q, db, d, t)
    [] q.method = "GET" /\ q.url = <<"api", "hotels">> -> listHotels(q, db, d, t)
    [] q.method = "POST" /\ q.url = <<"api", "hotels", "h1", "bookings", "payment-intent">>
         -> paymentIntent(q, db, d, t)
    [] q.method = "GET" /\ q.url = <<"api", "admin", "test">> -> adminTest(q, d, t)
    [] q.method = "PATCH" /\ q.url = <<"api", "admin", "hotels", "h1", "approve">>
         -> approveHotel(q, db, d, t)
    [] q.method = "GET" /\ q.url = <<"api", "admin", "activity-logs">>
         -> listActivityLogs(q, d, t)
    [] q.method = "GET" /\ q.url = <<"api", "admin", "activity-logs", "stats">>
         -> statsActivityLogs(q, d, t)
    [] q.method = "DELETE" /\ q.url = <<"api", "admin", "activity-logs">>
         -> deleteActivityLogs(q, d, t)
    [] OTHER -> notFound(q, d, t)

(***************************************************************************)
(* State machine                                                           *)
(***************************************************************************)
\* the log, the history and the numbers of records pushed by the res.send
\* replacement and by logActivity, after one effect of a handler at time t
ApplyEffect(st, e, t) ==
  CASE e.kind = "send" ->
         IF isImportantOperation(e.a.method, e.a.path)
         THEN [st EXCEPT !.acts = recordFromRequest(st.acts, e.a),
                         !.hist = Append(st.hist, e.a), !.sent = @ + 1]
         ELSE [st EXCEPT !.acts = recordFromRequest(st.acts, e.a)]
    [] e.kind = "logActivity" ->
         [st EXCEPT !.acts = logActivity(st.acts, e.a, t),
                    !.hist = Append(st.hist, logActivityRecord(e.a, t)),
                    !.logged = @ + 1]
    [] e.kind = "clear" ->
         [st EXCEPT !.acts = clearActivityLogs(st.acts), !.hist = << >>]

RECURSIVE ApplyEffects(_, _, _)
ApplyEffects(st, effects, t) ==
  IF effects = << >> THEN st
  ELSE ApplyEffects(ApplyEffect(st, Head(effects), t), Tail(effects), t)

NoAdmission ==
  [admitted |-> TRUE, roleVia |-> "none", roleOut |-> "next",
   payVia |-> "none", payOut |-> "next"]

NoClients == [l \in Limiters |-> NoClient]

\* what is kept of an operation: its input q or entry, the limiters' entries
\* of the client address before it, the limiters' verdicts, the status of the
\* response and the numbers of records pushed
Observation(op, q, before, adm, status, sent, logged, entry) ==
  [op |-> op, q |-> q, before |-> before, status |-> status,
   sent |-> sent, logged |-> logged, entry |-> entry,
   admitted |-> adm.admitted, roleVia |-> adm.roleVia, roleOut |-> adm.roleOut,
   payVia |-> adm.payVia, payOut |-> adm.payOut]

Internal(op, logged, entry) ==
  Observation(op, NoRequest, NoClients, NoAdmission, 0, 0, logged, entry)

\* no request is waiting for its handler
Idle == [pending |-> {}, arrived |-> << >>, flushed |-> << >>]

\* the server after start-up: empty limiter stores, empty log
StartChain ==
  /\ now = 0
  /\ limiterStore = [l \in Limiters |-> [ip \in IPs |-> NoClient]]
  /\ activities = << >>
  /\ appended = << >>
  /\ listed = [l \in Limiters |-> [ip \in IPs |-> 0]]
  /\ last = Internal("start", 0, EmptyEntry)

Start == StartChain /\ users = Registered /\ inflight = Idle

WithinOverrun(S) ==
  \A l \in Limiters : \A ip \in IPs : S[l][ip].totalHits <= max(l) + MaxOverrun

\* the hits of the window the request was charged to that were made by
\* requests for a path of the bypass list
ListedAfter(q, adm) ==
  IF adm.roleVia \notin Limiters THEN listed
  ELSE LET c == limiterStore[adm.roleVia][q.ip]
           old == IF c.totalHits = 0 \/ c.resetTime <= now
                  THEN 0 ELSE listed[adm.roleVia][q.ip]
       IN [listed EXCEPT ![adm.roleVia][q.ip] =
             old + (IF q.url \in bypassLiterals THEN 1 ELSE 0)]

\* One request through the middleware chain of index.ts: the limiters, then
\* (cookieParser, activityLogger and) the route, whose response runs the
\* res.send replacement.  db is what the handler's lookup finds, d the time
\* the handler took.
HandleRequest(q, db, d) ==
  LET adm == Admission(limiterStore, q, now)
      reply == IF adm.admitted THEN route(q, db, d, now) ELSE tooManyRequests(q, d, now)
      after == ApplyEffects([acts |-> activities, hist |-> appended,
                             sent |-> 0, logged |-> 0], reply.effects, now)
  IN /\ WithinOverrun(adm.store)
     /\ Len(after.hist) <= MaxAppended
     /\ limiterStore' = adm.store
     /\ activities' = after.acts
     /\ appended' = after.hist
     /\ listed' = ListedAfter(q, adm)
     /\ last' = Observation("request", q, [l \in Limiters |-> limiterStore[l][q.ip]],
                            adm, reply.status, after.sent, after.logged, EmptyEntry)
     /\ UNCHANGED <<now, client, users, inflight>>

\* what one request q does to the limiters and the log, its observation apart
Answered(q, adm, after) ==
  /\ WithinOverrun(adm.store)
  /\ Len(after.hist) <= MaxAppended
  /\ limiterStore' = adm.store
  /\ activities' = after.acts
  /\ appended' = after.hist
  /\ listed' = ListedAfter(q, adm)
  /\ UNCHANGED <<now, client, users, inflight>>

\* GET /api/admin/activity-logs?userId=&method=&limit= through the chain
ListActivityLogs(q, query) ==
  LET adm == Admission(limiterStore, q, now)
      reply == IF adm.admitted THEN route(q, "found", 0, now) ELSE tooManyRequests(q, 0, now)
      after == ApplyEffects([acts |-> activities, hist |-> appended,
                             sent |-> 0, logged |-> 0], reply.effects, now)
  IN /\ Answered(q, adm, after)
     /\ last' = [op |-> "listActivityLogs", q |-> q, query |-> query,
                 admitted |-> adm.admitted, status |-> reply.status,
                 data |-> IF reply.status = 200
                          THEN listActivityLogsData(activities, query) ELSE << >>]

\* PATCH /api/admin/hotels/h1/approve through the chain, recording throwing
\* once at the point fault
FaultyApprove(q, db, fault) ==
  LET adm == Admission(limiterStore, q, now)
      reply == IF adm.admitted THEN approveHotelFaulty(q, db, 0, now, fault)
               ELSE tooManyRequests(q, 0, now)
      after == ApplyEffects([acts |-> activities, hist |-> appended,
                             sent |-> 0, logged |-> 0], reply.effects, now)
  IN /\ Answered(q, adm, after)
     /\ last' = [op |-> "faultyApprove", q |-> q, fault |-> fault,
                 admitted |-> adm.admitted,
                 chosen |-> approveHotel(q, db, 0, now).status,
                 status |-> reply.status]

\* logActivity(entry) called directly
LogActivity(entry) ==
  /\ Len(appended) < MaxAppended
  /\ activities' = logActivity(activities, entry, now)
  /\ appended' = Append(appended, logActivityRecord(entry, now))
  /\ last' = Internal("logActivity", 1, entry)
  /\ UNCHANGED <<now, limiterStore, listed, client, users, inflight>>

\* clearActivityLogs() called directly
ClearActivityLogs ==
  /\ activities' = clearActivityLogs(activities)
  /\ appended' = << >>
  /\ last' = Internal("clear", 0, EmptyEntry)
  /\ UNCHANGED <<now, limiterStore, listed, client, users, inflight>>

\* time passes
Tick ==
  /\ now < MaxTicks * TickMs
  /\ now' = now + TickMs
  /\ last' = Internal("tick", 0, EmptyEntry)
  /\ UNCHANGED <<limiterStore, activities, appended, listed, client, users, inflight>>

\* a variant whose recorder pushes when the request arrives
activityLoggerTurns_atArrival(effects) ==
  LET isSend(e) == e.kind = "send"
      isOther(e) == e.kind # "send"
  IN [arrival |-> SelectSeq(effects, isSend), flush |-> SelectSeq(effects, isOther)]

\* activityLogger in the two turns of a request whose handler awaits: when it
\* arrives, startTime is taken, res.send is replaced and next() is called,
\* nothing is pushed; when the handler resumes and responds, the replacement
\* pushes the record, before the handler's own logActivity
activityLoggerTurns(effects) == [arrival |-> << >>, flush |-> effects]

\* the turn in which request q for the approval of a hotel arrives: the
\* limiters and the gate answer at once when they reject; otherwise the
\* controller awaits Hotel.findById, which will find what db says
Arrive(q, db) ==
  LET adm == Admission(limiterStore, q, now)
      sync == ~adm.admitted \/ adminGate(q).status # 200
      reply == IF adm.admitted THEN approveHotel(q, db, 0, now)
               ELSE tooManyRequests(q, 0, now)
      effects == IF sync THEN reply.effects
                 ELSE activityLoggerTurns(reply.effects).arrival
      after == ApplyEffects([acts |-> activities, hist |-> appended,
                             sent |-> 0, logged |-> 0], effects, now)
  IN /\ \A i \in 1..Len(inflight.arrived) : inflight.arrived[i] # q.url
     /\ WithinOverrun(adm.store)
     /\ Len(after.hist) <= MaxAppended
     /\ limiterStore' = adm.store
     /\ activities' = after.acts
     /\ appended' = after.hist
     /\ listed' = ListedAfter(q, adm)
     /\ inflight' =
          [pending |-> IF sync THEN inflight.pending
                       ELSE inflight.pending \cup {[q |-> q, db |-> db, startTime |-> now]},
           arrived |-> Append(inflight.arrived, q.url),
           flushed |-> IF sync THEN Append(inflight.flushed, q.url) ELSE inflight.flushed]
     /\ last' = [op |-> "arrive", q |-> q, admitted |-> adm.admitted,
                 status |-> IF sync THEN reply.status ELSE 0]
     /\ UNCHANGED <<now, client, users>>

\* the turn in which the await of pending request p settles: the controller
\* responds (res.json or, through errorHandler, the 404) and logs
Complete(p) ==
  LET reply == approveHotel(p.q, p.db, now - p.startTime, now)
      after == ApplyEffects([acts |-> activities, hist |-> appended,
                             sent |-> 0, logged |-> 0],
                            activityLoggerTurns(reply.effects).flush, now)
  IN /\ p \in inflight.pending
     /\ Len(after.hist) <= MaxAppended
     /\ activities' = after.acts
     /\ appended' = after.hist
     /\ inflight' = [inflight EXCEPT !.pending = @ \ {p},
                                     !.flushed = Append(@, p.q.url)]
     /\ last' = [op |-> "complete", q |-> p.q, status |-> reply.status,
                 duration |-> now - p.startTime]
     /\ UNCHANGED <<now, limiterStore, listed, client, users>>

\* One request for a route of the admin router that manages users or hotels,
\* through the chain: the limiters, the gate, the controller, its response
\* and its logActivity call.
AdminCall(q, body, db) ==
  LET adm == Admission(limiterStore, q, now)
      out == IF adm.admitted THEN adminRoute(q, body, db, users, 0, now)
             ELSE Outcome(tooManyRequests(q, 0, now), users)
      after == ApplyEffects([acts |-> activities, hist |-> appended,
                             sent |-> 0, logged |-> 0], out.reply.effects, now)
  IN /\ WithinOverrun(adm.store)
     /\ Len(after.hist) <= MaxAdminRecords
     /\ limiterStore' = adm.store
     /\ activities' = after.acts
     /\ appended' = after.hist
     /\ listed' = ListedAfter(q, adm)
     /\ users' = out.users
     /\ last' = [op |-> "adminCall", q |-> q, body |-> body, db |-> db,
                 admitted |-> adm.admitted, status |-> out.reply.status,
                 sent |-> after.sent, logged |-> after.logged]
     /\ UNCHANGED <<now, client, inflight>>

(***************************************************************************)
(* Admission control on its own: one client address, whose client presents *)
(* any one credential, and the paths that tell the limiters apart.         *)
(***************************************************************************)
Tokens == SignedTokens \cup BadTokens

AdmissionUrls ==
  { <<"api", "status">>, <<"api", "hotels">>, <<"api", "api", "status">>,
    <<"api", "hotels", "h1", "bookings", "payment-intent">> }

Credentials ==
  { [bearer |-> undefined, cookie |-> undefined] }
    \cup { [bearer |-> tk, cookie |-> undefined] : tk \in Tokens }
    \cup { [bearer |-> undefined, cookie |-> tk] : tk \in {"jwt_admin", "jwt_bad"} }

InitAdmission == Start /\ client \in Credentials

AdmissionRequest ==
  \E url \in AdmissionUrls :
    HandleRequest(
      Request("10.0.0.1", IF MatchesPaymentMount(url) THEN "POST" ELSE "GET", url,
              client.bearer, client.cookie),
      "found", 0)

NextAdmission == AdmissionRequest \/ Tick

SpecAdmission == InitAdmission /\ [][NextAdmission]_vars

RoleLimiters == {"hotelOwnerLimiter", "userLimiter", "anonLimiter"}

\* the role of the credential a request carries: the bearer token or else the
\* session cookie (the extraction of verifyToken)
CredentialRole(q) == getUserRoleFromToken(ExtractToken(q, TRUE))

\* the entry of limiter l for the client address of the last request
Window(l) == limiterStore[l][last.q.ip]

\* an entry that takes one more hit at time t without reaching the ceiling m
HasCapacity(c, m, t) == c.totalHits = 0 \/ c.resetTime <= t \/ c.totalHits < m

\* the hits of the window of limiter l made by requests outside the bypass list
Unlisted(l) == Window(l).totalHits - listed[l][last.q.ip]

\* C1: of the /api/ requests of one client address that are outside the
\* bypass list and resolved to hotel_owner, user or anonymous, the first
\* ceiling(role) of a window are forwarded by the role-based limiter and
\* number ceiling(role) + 1 is rejected (429).
C1_RoleCeilings ==
  (last.op = "request" /\ last.roleVia \in RoleLimiters
     /\ last.q.url \notin bypassLiterals)
  => /\ Unlisted(last.roleVia) <= max(last.roleVia) => last.roleOut = "next"
     /\ Unlisted(last.roleVia) = max(last.roleVia) + 1 => last.roleOut = "429"

\* C2: a request that finds its role's window exhausted but elapsed
\* (now - windowStart >= windowMs) starts a new window with count 1 and is
\* forwarded by the role-based limiter; and the role-based limiter rejects
\* no request whose window has elapsed.
C2_WindowReset ==
  (last.op = "request" /\ last.roleVia \in RoleLimiters)
  => LET c == last.before[last.roleVia]
         elapsed == c.totalHits > 0 /\ now - (c.resetTime - windowMs) >= windowMs
     IN /\ (elapsed /\ c.totalHits >= max(last.roleVia))
             => /\ last.roleOut = "next"
                /\ Window(last.roleVia) = [totalHits |-> 1, resetTime |-> now + windowMs]
        /\ last.roleOut = "429" => ~elapsed

\* C2 witness: a request forwarded on an elapsed window that had rejected
C2_Witness ==
  /\ last.op = "request" /\ last.roleVia \in RoleLimiters
  /\ last.before[last.roleVia].totalHits > max(last.roleVia)
  /\ last.before[last.roleVia].resetTime <= now
  /\ last.roleOut = "next"
  /\ Window(last.roleVia).totalHits = 1

\* C3: a request whose credential (bearer token, or else session cookie)
\* verifies with role admin is rejected neither by the role-based limiter
\* nor by the payment limiter.
C3_AdminNeverLimited ==
  (last.op = "request" /\ CredentialRole(last.q) = "admin")
  => last.roleOut # "429" /\ last.payOut # "429" /\ last.status # 429

BadCredentials ==
  { [bearer |-> b, cookie |-> c] : b \in BadTokens \cup {undefined},
                                    c \in BadTokens \cup {undefined} }
    \ { [bearer |-> undefined, cookie |-> undefined] }

\* C4: in every state, for every path, a request with a credential that
\* fails verification gets the verdicts and makes the counter updates of the
\* same request without credential; and one that was handled was charged
\* to the anonymous window or not charged at all.
C4_InvalidAsAnonymous ==
  /\ \A ip \in IPs, url \in AdmissionUrls, m \in {"GET", "POST"}, bad \in BadCredentials :
       Admission(limiterStore, Request(ip, m, url, bad.bearer, bad.cookie), now)
         = Admission(limiterStore, Request(ip, m, url, undefined, undefined), now)
  /\ (last.op = "request"
        /\ [bearer |-> last.q.bearer, cookie |-> last.q.cookie] \in BadCredentials)
     => /\ last.roleVia \in {"anonLimiter", "bypass", "unmounted"}
        /\ last.roleOut = "429" <=>
             (last.roleVia = "anonLimiter" /\ Window("anonLimiter").totalHits > anonMax)

\* C4 witness: requests with a bad bearer token have used up the anonymous window
C4_Witness ==
  /\ last.op = "request" /\ last.q.bearer \in BadTokens
  /\ last.roleVia = "anonLimiter" /\ last.roleOut = "429"
  /\ Window("anonLimiter").totalHits = anonMax + 1

\* C5: a request for /api/health, /api/status, /api/auth/validate-token or
\* /api/auth/google-callback is forwarded by the role-based limiter, whatever
\* the role and the counts, and leaves every window as it was.
C5_BypassPaths ==
  (last.op = "request" /\ last.q.url \in bypassLiterals)
  => /\ last.roleOut = "next"
     /\ \A l \in Limiters : Window(l) = last.before[l]

\* C6: a POST for the payment-intent path from a caller that is not admin
\* is admitted exactly when the role window and the payment window both
\* have capacity; once forwarded by the role-based limiter it is counted in
\* the payment window; and when it is hit number paymentMax + 1 of the
\* payment window it is rejected although the role-based limiter forwarded
\* it.
C6_PaymentCeiling ==
  (last.op = "request" /\ last.q.method = "POST"
     /\ MatchesPaymentMount(last.q.url) /\ CredentialRole(last.q) # "admin")
  => LET l == roleLimiterOf(getUserRoleFromToken(limiterToken(last.q)))
         p == last.before["paymentLimiter"]
     IN /\ last.admitted <=>
             /\ HasCapacity(last.before[l], max(l), now)
             /\ HasCapacity(p, paymentMax, now)
        /\ last.roleOut = "next"
             => /\ last.payVia = "paymentLimiter"
                /\ Window("paymentLimiter").totalHits =
                     (IF p.totalHits = 0 \/ p.resetTime <= now THEN 1 ELSE p.totalHits + 1)
        /\ last.roleOut = "429" => Window("paymentLimiter") = p
        /\ (last.payVia = "paymentLimiter"
              /\ Window("paymentLimiter").totalHits = paymentMax + 1)
           => /\ last.status = 429 /\ last.payOut = "429"
              /\ last.roleOut = "next" /\ Window(l).totalHits <= max(l)

\* C6 witness: the payment limiter rejects a request the role limiter forwarded
C6_Witness ==
  /\ last.op = "request" /\ last.q.method = "POST"
  /\ MatchesPaymentMount(last.q.url) /\ CredentialRole(last.q) = "user"
  /\ last.roleVia = "userLimiter" /\ last.roleOut = "next"
  /\ last.payOut = "429" /\ ~last.admitted
  /\ Window("paymentLimiter").totalHits = paymentMax + 1
  /\ Window("userLimiter").totalHits < userMax

(***************************************************************************)
(* The activity log with the requests that reach it: a client without      *)
(* credential or with an admin bearer token, the routes that record, clear *)
(* or are filtered out, and logActivity and clearActivityLogs called as    *)
(* functions.                                                              *)
\* the count of an entry after one more hit at time t
Charged(c, t) == IF c.totalHits = 0 \/ c.resetTime <= t THEN 1 ELSE c.totalHits + 1

\* C28: for a request to the payment-intent path the role-based limiter runs
\* before the payment limiter: a request the role-based limiter rejects is
\* answered 429 without reaching the payment limiter, whose window it leaves
\* as it was; a request the payment limiter rejects was forwarded by the
\* role-based limiter and, unless that limiter let it pass as admin, has been
\* counted in its role window.
C28_RoleBeforePayment ==
  (last.op = "request" /\ MatchesPaymentMount(last.q.url))
  => /\ last.roleOut = "429"
          => /\ last.status = 429
             /\ last.payVia = "none" /\ last.payOut = "next"
             /\ Window("paymentLimiter") = last.before["paymentLimiter"]
     /\ last.payOut = "429"
          => /\ last.status = 429
             /\ last.roleOut = "next"
             /\ last.roleVia \in RoleLimiters
             /\ Window(last.roleVia).totalHits
                  = Charged(last.before[last.roleVia], now)
             /\ Window(last.roleVia).totalHits <= max(last.roleVia)

\* C28 witness: the role-based limiter has rejected a payment request whose
\* payment window still had room, and that window is as it was
C28_Witness ==
  /\ last.op = "request" /\ MatchesPaymentMount(last.q.url)
  /\ last.roleOut = "429" /\ last.roleVia = "anonLimiter"
  /\ HasCapacity(last.before["paymentLimiter"], paymentMax, now)
  /\ Window("paymentLimiter") = last.before["paymentLimiter"]
  /\ Window("anonLimiter").totalHits = anonMax + 1

\* C29: every request the role-based limiter classifies is classified by the
\* role of its credential, the credential being the bearer token when the
\* Authorization header starts with "Bearer " and the session_id cookie
\* otherwise: no or a failing credential counts in the anonymous window, a
\* verified one without role in the user window, one with a role outside
\* admin / hotel_owner / user in the anonymous window.
C29_RoleResolution ==
  (last.op = "request" /\ last.roleVia \in RoleLimiters \cup {"admin"})
  => LET token == ExtractToken(last.q, TRUE)
         userRole == IF token = undefined \/ ~jwtVerify(token).ok
                     THEN "anonymous"
                     ELSE IF jwtVerify(token).userRole = undefined THEN "user"
                     ELSE jwtVerify(token).userRole
     IN last.roleVia = (IF userRole = "admin" THEN "admin"
                        ELSE IF userRole = "hotel_owner" THEN "hotelOwnerLimiter"
                        ELSE IF userRole = "user" THEN "userLimiter"
                        ELSE "anonLimiter")

(***************************************************************************)
RecorderCredentials ==
  { [bearer |-> undefined, cookie |-> undefined],
    [bearer |-> "jwt_admin", cookie |-> undefined] }

RecorderCalls ==
  { [method |-> "GET", url |-> <<"api", "hotels">>],
    [method |-> "GET", url |-> <<"api", "admin", "test">>],
    [method |-> "GET", url |-> <<"api", "admin", "nowhere">>],
    [method |-> "PATCH", url |-> <<"api", "admin", "hotels", "h1", "approve">>],
    [method |-> "DELETE", url |-> <<"api", "admin", "activity-logs">>] }

Durations == {7}

FullEntry ==
  Activity("u_admin", 1, "PUT", <<"jobs", "nightly">>, "10.0.0.9", "cron", 200,
           "jobId", "force=1", 7, "nightly job")

ExplicitEntries ==
  { EmptyEntry,
    [EmptyEntry EXCEPT !.method = "GET", !.path = <<"api", "hotels">>],
    FullEntry }

InitRecorder == Start /\ client \in RecorderCredentials

RecorderRequest ==
  \E c \in RecorderCalls, db \in {"found", "missing"}, d \in Durations :
    HandleRequest(Request("10.0.0.1", c.method, c.url, client.bearer, client.cookie),
                  db, d)

RecorderLogActivity == \E entry \in ExplicitEntries : LogActivity(entry)

NextRecorder ==
  RecorderRequest \/ RecorderLogActivity \/ ClearActivityLogs

SpecRecorder == InitRecorder /\ [][NextRecorder]_vars

\* the last n elements of a sequence
LastN(seq, n) == IF Len(seq) <= n THEN seq ELSE SubSeq(seq, Len(seq) - n + 1, Len(seq))

Newest == activities[Len(activities)]

\* C7: the log never holds more than MAX_ACTIVITIES records, and it holds
\* the records pushed since it was last emptied, or the MAX_ACTIVITIES most
\* recent of them, in the order they were pushed.
C7_BoundedFifo ==
  /\ Len(activities) <= MAX_ACTIVITIES
  /\ activities = LastN(appended, MAX_ACTIVITIES)

\* C7 witness: more than MAX_ACTIVITIES records were pushed and the oldest is gone
C7_Witness ==
  /\ Len(appended) > MAX_ACTIVITIES
  /\ Len(activities) = MAX_ACTIVITIES
  /\ activities[1] = appended[Len(appended) - MAX_ACTIVITIES + 1]
  /\ activities[1] # appended[1]

UnderNamespace(url) ==
  IsPrefix(<<"api", "admin">>, url) \/ IsPrefix(<<"api", "auth">>, url)

\* C8: a request that is answered past the limiters gets an automatic
\* record if and only if its verb is POST, PUT, PATCH or DELETE or its path
\* lies under /api/admin or /api/auth.
C8_AutomaticFilter ==
  (last.op = "request" /\ last.admitted)
  => (last.sent >= 1 <=>
        \/ last.q.method \in {"POST", "PUT", "PATCH", "DELETE"}
        \/ UnderNamespace(last.q.url))

\* C9 as the specification states it: logActivity with no field set pushes
\* a record with actor "system", verb "SYSTEM", path "/internal", duration 0.
C9_SystemActor ==
  (last.op = "logActivity" /\ last.entry = EmptyEntry)
  => /\ Newest.userId = "system"
     /\ Newest.method = "SYSTEM"
     /\ Newest.path = <<"internal">>
     /\ Newest.duration = 0

\* C9 amended: logActivity gives a missing timestamp, verb, path, caller
\* address, caller agent and duration their defaults (the current time,
\* "SYSTEM", "/internal", "127.0.0.1", "system", 0), keeps the fields that
\* are set, and leaves a missing actor, status code, params, query and
\* message absent.
C9_Defaults ==
  last.op = "logActivity"
  => LET e == last.entry
         r == Newest
     IN /\ r.timestamp = (IF e.timestamp = undefinedNumber THEN now ELSE e.timestamp)
        /\ r.method = (IF e.method = undefined THEN "SYSTEM" ELSE e.method)
        /\ r.path = (IF e.path = undefinedPath THEN <<"internal">> ELSE e.path)
        /\ r.ip = (IF e.ip = undefined THEN "127.0.0.1" ELSE e.ip)
        /\ r.userAgent = (IF e.userAgent = undefined THEN "system" ELSE e.userAgent)
        /\ r.duration = (IF e.duration = undefinedNumber THEN 0 ELSE e.duration)
        /\ r.userId = e.userId /\ r.statusCode = e.statusCode
        /\ r.params = e.params /\ r.query = e.query /\ r.message = e.message

\* C9 witness: logActivity({}) has pushed the record of defaults, without actor
C9_Witness ==
  /\ last.op = "logActivity" /\ last.entry = EmptyEntry
  /\ Newest = Activity(undefined, now, "SYSTEM", <<"internal">>, "127.0.0.1", "system",
                       undefinedNumber, undefined, undefined, 0, undefined)

\* C10: logActivity pushes exactly one record whatever the entry's verb and
\* path (at capacity the oldest record makes room for it), while a GET
\* request for a path outside /api/admin and /api/auth leaves the log as it
\* was.
C10_ExplicitRetained ==
  [][ /\ last'.op = "logActivity"
        => /\ Len(activities') > 0
           /\ activities' =
                Append(IF Len(activities) < MAX_ACTIVITIES THEN activities
                       ELSE Tail(activities),
                       activities'[Len(activities')])
           /\ last'.entry.method # undefined
                => activities'[Len(activities')].method = last'.entry.method
           /\ last'.entry.path # undefinedPath
                => activities'[Len(activities')].path = last'.entry.path
      /\ (last'.op = "request" /\ last'.q.method = "GET" /\ ~UnderNamespace(last'.q.url))
        => activities' = activities /\ last'.sent = 0 ]_vars

\* C10 witness: an explicit GET entry for a path outside the namespaces is in the log
C10_Witness ==
  /\ last.op = "logActivity"
  /\ last.entry.method = "GET" /\ ~UnderNamespace(last.entry.path)
  /\ ~isImportantOperation(last.entry.method, last.entry.path)
  /\ Len(activities) > 0
  /\ Newest.method = "GET" /\ Newest.path = last.entry.path

(***************************************************************************)
(* The functions of activityLogger.ts called directly: logActivity,        *)
(* clearActivityLogs, and the three that read the log, getActivityLogs,    *)
(* getLoginLogs and getActivityStats, with every combination of their      *)
(* arguments.                                                              *)
(***************************************************************************)
QueryEntries ==
  { [EmptyEntry EXCEPT !.userId = "u_user", !.method = "DELETE",
                       !.path = <<"api", "hotels", "h1">>, !.timestamp = 2],
    [EmptyEntry EXCEPT !.userId = "u_user", !.method = "POST",
                       !.path = <<"api", "auth", "login">>, !.statusCode = 200],
    [EmptyEntry EXCEPT !.userId = "u_admin", !.method = "GET",
                       !.path = <<"api", "admin", "users">>, !.timestamp = 1],
    [EmptyEntry EXCEPT !.method = "POST", !.path = <<"api", "auth", "login">>,
                       !.statusCode = 401] }

QueryActors == {undefined, "", "u_user", "u_admin"}
QueryVerbs == {undefined, "DELETE"}
QueryLimits == 0..MaxLimit

InitQueries == Start /\ client = [bearer |-> undefined, cookie |-> undefined]

QueriesLogActivity == \E entry \in QueryEntries : LogActivity(entry)

\* getActivityLogs(userId, method, limit) called directly, its arguments
\* taken from the given sets
GetActivityLogsOf(actors, verbs, limits) ==
  \E userId \in actors, method \in verbs, limit \in limits :
    /\ last' = [op |-> "getActivityLogs", userId |-> userId, method |-> method,
                limit |-> limit,
                result |-> getActivityLogs(activities, userId, method, limit)]
    /\ UNCHANGED <<now, limiterStore, activities, appended, listed, client, users, inflight>>

GetActivityLogs == GetActivityLogsOf(QueryActors, QueryVerbs, QueryLimits)

\* getLoginLogs(userId, limit) called directly, its arguments taken from the
\* given sets
GetLoginLogsOf(actors, limits) ==
  \E userId \in actors, limit \in limits :
    /\ last' = [op |-> "getLoginLogs", userId |-> userId, limit |-> limit,
                result |-> getLoginLogs(activities, userId, limit)]
    /\ UNCHANGED <<now, limiterStore, activities, appended, listed, client, users, inflight>>

GetLoginLogs == GetLoginLogsOf(QueryActors, {0, 1, MaxLimit})

\* getActivityStats() called directly
GetActivityStats ==
  /\ last' = [op |-> "getActivityStats", result |-> getActivityStats(activities)]
  /\ UNCHANGED <<now, limiterStore, activities, appended, listed, client, users, inflight>>

\* clearActivityLogs() then getActivityStats(), in one turn of the event loop
ClearThenStats ==
  /\ activities' = clearActivityLogs(activities)
  /\ appended' = << >>
  /\ last' = [op |-> "clearThenStats", held |-> Len(activities),
              result |-> getActivityStats(clearActivityLogs(activities))]
  /\ UNCHANGED <<now, limiterStore, listed, client, users, inflight>>

NextQueries ==
  \/ QueriesLogActivity
  \/ GetActivityLogs
  \/ GetLoginLogs
  \/ GetActivityStats
  \/ ClearThenStats

SpecQueries == InitQueries /\ [][NextQueries]_vars

\* a record passes the filters that are given (an empty string is no filter)
Matches(a, userId, method) ==
  /\ Truthy(userId) => a.userId = userId
  /\ Truthy(method) => a.method = method

\* the positions of the log whose records pass the filters
Matching(userId, method) ==
  { i \in 1..Len(activities) : Matches(activities[i], userId, method) }

\* C11: for every log, every optional actor and verb and every limit >= 1,
\* getActivityLogs returns min(limit, m) records, m the number of retained
\* records that pass the given filters, and the j-th record returned is the
\* j-th newest of those: nothing returned fails a filter, nothing newer than
\* a returned record is left out, and the newest comes first.
C11_QueryNewestFirst ==
  (last.op = "getActivityLogs" /\ last.limit >= 1)
  => LET M == Matching(last.userId, last.method)
         r == last.result
     IN /\ Len(r) = (IF last.limit < Cardinality(M) THEN last.limit ELSE Cardinality(M))
        /\ \A j \in 1..Len(r) :
             \E i \in M : /\ Cardinality({ k \in M : k > i }) = j - 1
                          /\ r[j] = activities[i]

\* C11 witness: of three records of u_user's DELETEs and others, a query for
\* u_user's DELETEs with limit 1 has returned the newer one of two, while a
\* record that does not match is newer still
C11_Witness ==
  /\ last.op = "getActivityLogs"
  /\ last.userId = "u_user" /\ last.method = "DELETE" /\ last.limit = 1
  /\ Len(activities) = MAX_ACTIVITIES
  /\ Cardinality(Matching("u_user", "DELETE")) >= 2
  /\ ~Matches(activities[Len(activities)], "u_user", "DELETE")
  /\ Len(last.result) = 1
  /\ last.result[1] = activities[Len(activities) - 1]

ZeroStats ==
  [totalActivities |-> 0, totalUsers |-> 0,
   activitiesByMethod |-> [m \in Verbs |-> 0], lastActivity |-> null]

\* C12: whatever the log holds, clearActivityLogs() leaves it empty and
\* getActivityStats() called right after reports no activities, no users, 0
\* for each of GET, POST, PUT, PATCH, DELETE and no last activity.
C12_ClearThenStats ==
  last.op = "clearThenStats"
  => /\ activities = << >>
     /\ last.result = ZeroStats

\* C12 witness: a full log was cleared
C12_Witness ==
  /\ last.op = "clearThenStats" /\ last.held = MAX_ACTIVITIES
  /\ Len(activities) = 0 /\ last.result.totalActivities = 0

\* C16: getActivityStats() agrees with the log: totalActivities is its
\* length, totalUsers the number of distinct actors among the records that
\* have one, the count of each verb the number of records with that verb,
\* and lastActivity the timestamp of the record pushed last, or none.
C16_StatsAgree ==
  last.op = "getActivityStats"
  => LET r == last.result
         n == Len(activities)
     IN /\ r.totalActivities = n
        /\ r.totalUsers =
             Cardinality({ activities[i].userId : i \in 1..n } \ {undefined})
        /\ \A m \in Verbs :
             r.activitiesByMethod[m] =
               Cardinality({ i \in 1..n : activities[i].method = m })
        /\ r.lastActivity = (IF n = 0 THEN null ELSE activities[n].timestamp)

\* C16 witness: a log of two actors' records and one without actor, whose
\* newest record is not the one with the latest timestamp
C16_Witness ==
  /\ last.op = "getActivityStats"
  /\ Len(activities) = MAX_ACTIVITIES
  /\ last.result.totalUsers = 2
  /\ \E i \in 1..Len(activities) : activities[i].userId = undefined
  /\ \E i \in 1..Len(activities) : activities[i].timestamp > Newest.timestamp
  /\ last.result.lastActivity = Newest.timestamp

(***************************************************************************)
(* The list-logs endpoint of routes/activity-logs.ts with every value of   *)
(* its limit parameter, and the routes that fill the log: the approval of  *)
(* a hotel, with and without a failure of the recording, and the login.    *)
\* C30: getActivityLogs(actor, verb, 0) called directly returns every
\* retained record that passes the given filters, the newest first, and not
\* an empty sequence: slice(-0) is slice(0), the whole array.
C30_LimitZeroReturnsAll ==
  (last.op = "getActivityLogs" /\ last.limit = 0)
  => LET M == Matching(last.userId, last.method)
         r == last.result
     IN /\ Len(r) = Cardinality(M)
        /\ \A j \in 1..Len(r) :
             \E i \in M : /\ Cardinality({ k \in M : k > i }) = j - 1
                          /\ r[j] = activities[i]

\* C30 witness: a query of a full log with limit 0 and a verb filter has
\* returned two records, while the log holds a record that fails the filter
C30_Witness ==
  /\ last.op = "getActivityLogs"
  /\ last.limit = 0 /\ last.method = "DELETE" /\ ~Truthy(last.userId)
  /\ Len(activities) = MAX_ACTIVITIES
  /\ Cardinality(Matching(undefined, "DELETE")) = 2
  /\ Len(last.result) = 2

(***************************************************************************)
logsUrl == <<"api", "admin", "activity-logs">>
statsUrl == <<"api", "admin", "activity-logs", "stats">>
approveUrl == <<"api", "admin", "hotels", "h1", "approve">>
loginUrl == <<"api", "auth", "login">>

ApiCalls ==
  { [method |-> "PATCH", url |-> approveUrl],
    [method |-> "POST", url |-> loginUrl] }

ApiClient(method, url) == Request("10.0.0.1", method, url, client.bearer, client.cookie)

InitActivityApi == Start /\ client \in RecorderCredentials

ApiRequest ==
  \E c \in ApiCalls, db \in {"found", "missing"} :
    HandleRequest(ApiClient(c.method, c.url), db, 0)

ApiListActivityLogs ==
  \E query \in ListQueries : ListActivityLogs(ApiClient("GET", logsUrl), query)

ApiFaultyApprove ==
  \E fault \in {"send", "logActivity"} :
    FaultyApprove(ApiClient("PATCH", approveUrl), "found", fault)

NextActivityApi == ApiRequest \/ ApiListActivityLogs \/ ApiFaultyApprove

SpecActivityApi == InitActivityApi /\ [][NextActivityApi]_vars

\* C13: whatever the limit parameter and the log, the list-logs endpoint
\* answers with at most limitCap (1000) records.
C13_LimitClamped ==
  (last.op = "listActivityLogs" /\ last.status = 200)
  => Len(last.data) <= limitCap

\* C14: a request whose recording throws, in the res.send replacement or in
\* logActivity, is answered with the status its handler chose.
C14_RecordingContained ==
  (last.op = "faultyApprove" /\ last.admitted)
  => last.status = last.chosen

\* C15: a login request (POST /api/auth/login) answered 200 and recorded is
\* what getLoginLogs returns first right after it.
C15_LoginsReturned ==
  (last.op = "request" /\ last.q.method = "POST"
     /\ last.q.url = loginUrl
     /\ last.status = 200 /\ last.sent >= 1)
  => LET r == getLoginLogs(activities, undefined, MaxLimit)
     IN Len(r) >= 1 /\ r[1] = Newest

(***************************************************************************)
(* The three activity endpoints and the approval of a hotel, called by a   *)
(* client without credential, with a bad one, with a user's, with one      *)
(* without role and with an admin's, in the header or in the cookie.       *)
(***************************************************************************)
GateCredentials ==
  { [bearer |-> undefined, cookie |-> undefined],
    [bearer |-> "jwt_bad", cookie |-> undefined],
    [bearer |-> "jwt_user", cookie |-> undefined],
    [bearer |-> "jwt_norole", cookie |-> undefined],
    [bearer |-> "jwt_admin", cookie |-> undefined],
    [bearer |-> undefined, cookie |-> "jwt_admin"] }

ActivityEndpoints ==
  { [method |-> "GET", url |-> logsUrl],
    [method |-> "GET", url |-> statsUrl],
    [method |-> "DELETE", url |-> logsUrl] }

GateCalls ==
  { [method |-> "PATCH", url |-> approveUrl],
    [method |-> "GET", url |-> statsUrl],
    [method |-> "DELETE", url |-> logsUrl] }

InitAdminGate == Start /\ client \in GateCredentials

GateRequest ==
  \E c \in GateCalls : HandleRequest(ApiClient(c.method, c.url), "found", 0)

GateListActivityLogs ==
  \E query \in { q \in ListQueries : q.userId = undefined /\ q.limit \in {undefined, "2"} } :
    ListActivityLogs(ApiClient("GET", logsUrl), query)

NextAdminGate == GateRequest \/ GateListActivityLogs

SpecAdminGate == InitAdminGate /\ [][NextAdminGate]_vars

C25_RejectedUnrecorded ==
  [][ (last'.op \in {"request", "listActivityLogs"} /\ ~last'.admitted)
      => /\ last'.status = 429
         /\ activities' = activities
         /\ appended' = appended ]_vars

\* C25 witness: a DELETE of /api/admin/activity-logs was rejected by the
\* anonymous limiter while the log held the records of the caller's earlier
\* requests, which it still holds
C25_Witness ==
  /\ last.op = "request" /\ last.q.method = "DELETE" /\ last.q.url = logsUrl
  /\ ~last.admitted /\ last.status = 429 /\ last.roleOut = "429"
  /\ last.sent = 0
  /\ Len(activities) = anonMax
  /\ \A i \in 1..Len(activities) : activities[i].statusCode = 401

\* C26: once an admin's DELETE /api/admin/activity-logs is answered (200),
\* the log holds exactly one record, that of the DELETE itself with status
\* 200: the handler empties the log, then the response is sent and recorded.
C26_ClearLeavesOwnRecord ==
  (/\ last.op = "request" /\ last.q.method = "DELETE" /\ last.q.url = logsUrl
   /\ last.status = 200)
  => /\ Len(activities) = 1
     /\ activities[1].method = "DELETE"
     /\ activities[1].path = StripMount(adminMount, logsUrl)
     /\ activities[1].statusCode = 200
     /\ activities[1].userId = "u_admin"
     /\ appended = activities

\* C26 witness: an admin's DELETE of the logs was answered 200, has pushed
\* its record, and the log holds one record
C26_Witness ==
  /\ last.op = "request" /\ last.q.method = "DELETE" /\ last.q.url = logsUrl
  /\ last.q.bearer = "jwt_admin" /\ last.admitted /\ last.status = 200
  /\ last.sent = 1
  /\ Len(activities) = 1 /\ Newest.method = "DELETE"

(***************************************************************************)
Callers == {"jwt_user", "jwt_norole"}

InitTwoClients == Start /\ client = [bearer |-> undefined, cookie |-> undefined]

TwoClientsRequest ==
  \E ip \in IPs, caller \in Callers :
    HandleRequest(Request(ip, "GET", <<"api", "hotels">>, caller, undefined), "found", 0)

NextTwoClients == TwoClientsRequest \/ Tick

SpecTwoClients == InitTwoClients /\ [][NextTwoClients]_vars

\* an entry whose window is running at time t
Live(c, t) == c.totalHits > 0 /\ c.resetTime > t

\* C18 as the specification states it: once the callers of role user have
\* made userMax requests in a running window at one address, the first
\* request of a user-role caller at another address is rejected.
C18_SharedByRole ==
  (/\ last.op = "request" /\ last.roleVia = "userLimiter"
   /\ ~Live(last.before["userLimiter"], now)
   /\ \E ip \in IPs \ {last.q.ip} :
        /\ Live(limiterStore["userLimiter"][ip], now)
        /\ limiterStore["userLimiter"][ip].totalHits >= userMax)
  => last.roleOut = "429"

\* C18 amended: a window belongs to a role limiter and a client address.  A
\* request changes no entry of another address; it is counted in the entry
\* of its own address whoever the caller of that role is, and is rejected
\* exactly when that entry, running, already held the ceiling.
C18_KeyedByRoleAndAddress ==
  [][ (last'.op = "request" /\ last'.roleVia \in RoleLimiters)
      => LET l == last'.roleVia
             ip == last'.q.ip
             c == limiterStore[l][ip]
         IN /\ \A k \in Limiters, other \in IPs \ {ip} :
                 limiterStore'[k][other] = limiterStore[k][other]
            /\ limiterStore'[l][ip].totalHits =
                 (IF Live(c, now) THEN c.totalHits + 1 ELSE 1)
            /\ last'.roleOut = "429" <=> (Live(c, now) /\ c.totalHits >= max(l)) ]_vars

\* C18 witness: the user window of one address is over its ceiling and
\* running, and the first request of another user-role caller at the other
\* address was forwarded as hit 1 of its own window
C18_Witness ==
  /\ last.op = "request" /\ last.roleVia = "userLimiter"
  /\ last.q.ip = "10.0.0.2" /\ last.q.bearer = "jwt_norole"
  /\ Live(limiterStore["userLimiter"]["10.0.0.1"], now)
  /\ limiterStore["userLimiter"]["10.0.0.1"].totalHits > userMax
  /\ last.roleOut = "next"
  /\ limiterStore["userLimiter"]["10.0.0.2"].totalHits = 1

\* C19 as the specification states it: no window ever counts more than its
\* ceiling.
C19_CountWithinCeiling ==
  \A l \in Limiters, ip \in IPs : limiterStore[l][ip].totalHits <= max(l)

\* C19 amended: every request a role limiter handles is counted, the
\* rejected ones too, and it is rejected exactly when the count it brings
\* the window to exceeds the ceiling: the count exceeds the ceiling by the
\* number of requests rejected in the window.
C19_RejectedAreCounted ==
  (last.op = "request" /\ last.roleVia \in RoleLimiters)
  => LET l == last.roleVia
         c == last.before[l]
     IN /\ Window(l).totalHits = (IF Live(c, now) THEN c.totalHits + 1 ELSE 1)
        /\ last.roleOut = "429" <=> Window(l).totalHits > max(l)
        /\ last.roleOut = "429" => last.status = 429

\* C19 witness: a rejected request has brought a window over its ceiling
C19_Witness ==
  /\ last.op = "request" /\ last.roleVia = "userLimiter"
  /\ last.roleOut = "429"
  /\ last.before["userLimiter"].totalHits = userMax
  /\ Window("userLimiter").totalHits = userMax + 1

(***************************************************************************)
(* One user whose requests are answered, fail, or are never answered: the  *)
(* list of hotels and the payment intent, whose handlers await the         *)
(* database.                                                               *)
(***************************************************************************)
ChargeCalls ==
  { [method |-> "GET", url |-> <<"api", "hotels">>, db |-> "found"],
    [method |-> "GET", url |-> <<"api", "hotels">>, db |-> "error"],
    [method |-> "GET", url |-> <<"api", "hotels">>, db |-> "pending"],
    [method |-> "POST", url |-> <<"api", "hotels", "h1", "bookings", "payment-intent">>,
     db |-> "found"],
    [method |-> "POST", url |-> <<"api", "hotels", "h1", "bookings", "payment-intent">>,
     db |-> "missing"],
    [method |-> "POST", url |-> <<"api", "hotels", "h1", "bookings", "payment-intent">>,
     db |-> "pending"] }

InitChargeOnEntry ==
  Start /\ client \in { [bearer |-> "jwt_user", cookie |-> undefined],
                          [bearer |-> "jwt_owner", cookie |-> undefined] }

ChargeRequest ==
  \E c \in ChargeCalls :
    HandleRequest(Request("10.0.0.1", c.method, c.url, client.bearer, client.cookie),
                  c.db, 0)

NextChargeOnEntry == ChargeRequest \/ Tick

SpecChargeOnEntry == InitChargeOnEntry /\ [][NextChargeOnEntry]_vars

\* C20: a request a role limiter handles is counted in its window before
\* its handler runs, whatever becomes of it (answered, failed, never
\* answered); no step lowers the count of a running window; and a request
\* that was admitted and never answered has pushed no record.
C20_ChargeOnEntry ==
  [][ /\ (last'.op = "request" /\ last'.roleVia \in RoleLimiters)
        => LET c == limiterStore[last'.roleVia][last'.q.ip]
           IN limiterStore'[last'.roleVia][last'.q.ip].totalHits =
                (IF Live(c, now) THEN c.totalHits + 1 ELSE 1)
      /\ \A l \in Limiters, ip \in IPs :
           \/ limiterStore'[l][ip].totalHits >= limiterStore[l][ip].totalHits
           \/ (~Live(limiterStore[l][ip], now) /\ limiterStore'[l][ip].totalHits = 1)
      /\ (last'.op = "request" /\ last'.admitted /\ last'.status = 0)
        => /\ activities' = activities /\ appended' = appended
           /\ last'.sent = 0 /\ last'.logged = 0 ]_vars

\* C20 witness: a payment request that was never answered has used a slot
\* of the user window and of the payment window, and left the log alone
C20_Witness ==
  /\ last.op = "request" /\ last.q.method = "POST" /\ last.admitted
  /\ last.status = 0 /\ last.sent = 0
  /\ last.roleVia = "userLimiter"
  /\ Live(last.before["userLimiter"], now)
  /\ Window("userLimiter").totalHits = last.before["userLimiter"].totalHits + 1
  /\ last.payVia = "paymentLimiter" /\ Window("paymentLimiter").totalHits = 1
  /\ Len(activities) > 0

\* C22: the replacement of res.send installed by activityLogger runs once
\* for a request that is answered, so that every request contributes at most
\* one automatic record to the log, whether its handler answers with
\* res.json, with res.send of a string or with res.send of an object.
C22_OncePerRequest == last.op = "request" => last.sent <= 1

(***************************************************************************)
(* The management of users by the admin router: an admin or a user calls   *)
(* toggleUserStatus, changeUserRole, resetUserPassword and deleteUser on   *)
(* an admin, on another user and on an id without document, from every     *)
(* state of the other user's document.                                     *)
(***************************************************************************)
usersUrl(id) == <<"api", "admin", "users", id>>

UserCalls ==
  { [method |-> "PATCH", url |-> usersUrl(id), body |-> Body(v, undefined, undefined)] :
      id \in {"u_admin", "u_user"}, v \in {"false", "no"} }
  \cup { [method |-> "PATCH", url |-> usersUrl(id) \o <<"role">>,
          body |-> Body(undefined, r, undefined)] :
           id \in {"u_admin", "u_user"}, r \in {"hotel_owner", "admin"} }
  \cup { [method |-> "POST", url |-> usersUrl(id) \o <<"reset-password">>, body |-> NoBody] :
           id \in {"u_admin", "u_user"} }
  \cup { [method |-> "DELETE", url |-> usersUrl(id), body |-> NoBody] : id \in UserIds }

UserStores ==
  { [Registered EXCEPT !["u_user"] = User(r, a, "hash_user")] :
      r \in {"user", "hotel_owner"}, a \in BOOLEAN }

AdminCallers ==
  { [bearer |-> "jwt_admin", cookie |-> undefined],
    [bearer |-> "jwt_user", cookie |-> undefined] }

InitUserAdmin ==
  /\ StartChain
  /\ inflight = Idle
  /\ client \in AdminCallers
  /\ users \in UserStores

UserAdminCall ==
  \E c \in UserCalls : AdminCall(ApiClient(c.method, c.url), c.body, "found")

NextUserAdmin == UserAdminCall

SpecUserAdmin == InitUserAdmin /\ [][NextUserAdmin]_vars

\* the ids of the users whose role is admin in the collection U
Admins(U) == { id \in UserIds : U[id].exists /\ U[id].role = "admin" }

\* the body of call c is one its controller accepts
WellFormed(c) ==
  /\ (c.q.method = "PATCH" /\ Len(c.q.url) = 4) => typeofBoolean(c.body.isActive)
  /\ (c.q.method = "PATCH" /\ Len(c.q.url) = 5) => c.body.role \in {"user", "hotel_owner"}

\* C24: no call of toggleUserStatus, deleteUser, changeUserRole or
\* resetUserPassword changes the set of users whose role is admin or the
\* status, role or password of one of them; a call an admin makes on an admin
\* fails without changing anything, with 403 when its body is well-formed
\* (with 400 otherwise); and changeUserRole answers 400, changing nothing,
\* to every role other than user and hotel_owner.
C24_AdminsUntouched ==
  [][ /\ Admins(users') = Admins(users)
      /\ \A id \in Admins(users) : users'[id] = users[id]
      /\ (last'.op = "adminCall" /\ last'.admitted /\ adminGate(last'.q).status = 200)
         => /\ last'.q.url[4] \in Admins(users)
               => /\ users' = users
                  /\ last'.status = (IF WellFormed(last') THEN 403 ELSE 400)
            /\ (last'.q.method = "PATCH" /\ Len(last'.q.url) = 5
                  /\ last'.body.role \notin {"user", "hotel_owner"})
               => (last'.status = 400 /\ users' = users) ]_vars

\* C24 witness: after the admin has deleted the other user, its DELETE of the
\* admin account was answered 403 and the account is as it was registered
C24_Witness ==
  /\ last.op = "adminCall" /\ last.q.method = "DELETE"
  /\ last.q.url = usersUrl("u_admin") /\ last.q.bearer = "jwt_admin"
  /\ last.status = 403
  /\ ~users["u_user"].exists
  /\ users["u_admin"] = Registered["u_admin"]

(***************************************************************************)
(* The operations of the admin router that write an explicit record:       *)
(* approval, rejection and activation of a hotel and the change of a       *)
(* user's role, each succeeding and failing.                               *)
(***************************************************************************)
hotelUrl(leaf) == <<"api", "admin", "hotels", "h1", leaf>>

OpsCalls ==
  { [method |-> "PATCH", url |-> hotelUrl("approve"), body |-> NoBody, db |-> db] :
      db \in {"found", "missing"} }
  \cup { [method |-> "PATCH", url |-> hotelUrl("reject"),
          body |-> Body(undefined, undefined, c.reason), db |-> c.db] :
           c \in { [reason |-> "dirty", db |-> "found"],
                   [reason |-> undefined, db |-> "found"],
                   [reason |-> "dirty", db |-> "missing"] } }
  \cup { [method |-> "PATCH", url |-> hotelUrl("active"),
          body |-> Body(c.isActive, undefined, undefined), db |-> c.db] :
           c \in { [isActive |-> "false", db |-> "found"],
                   [isActive |-> "no", db |-> "found"],
                   [isActive |-> "true", db |-> "missing"] } }
  \cup { [method |-> "PATCH", url |-> usersUrl(c.id) \o <<"role">>,
          body |-> Body(undefined, c.role, undefined), db |-> "found"] :
           c \in { [id |-> "u_user", role |-> "hotel_owner"],
                   [id |-> "u_user", role |-> "admin"],
                   [id |-> "u_none", role |-> "user"],
                   [id |-> "u_admin", role |-> "user"] } }

InitAdminOps == Start /\ client \in AdminCallers

AdminOpsCall ==
  \E c \in OpsCalls : AdminCall(ApiClient(c.method, c.url), c.body, c.db)

NextAdminOps == AdminOpsCall

SpecAdminOps == InitAdminOps /\ [][NextAdminOps]_vars

\* C27: an approveHotel, rejectHotel, setHotelActive or changeUserRole request
\* that succeeds (200) appends exactly two records, first the automatic one
\* with the status code, then the explicit one of logActivity without status
\* code, which for a rejection carries the note made of the reason; a request
\* whose controller fails (404, 400, 403) appends its automatic record only.
C27_TwoRecords ==
  [][ (last'.op = "adminCall" /\ last'.admitted /\ adminGate(last'.q).status = 200)
      => LET q == last'.q
             n == Len(appended)
         IN /\ last'.status = 200
               => /\ Len(appended') = n + 2
                  /\ SubSeq(appended', 1, n) = appended
                  /\ last'.sent = 1 /\ last'.logged = 1
                  /\ appended'[n + 1].statusCode = 200
                  /\ appended'[n + 1].method = q.method
                  /\ appended'[n + 1].path = StripMount(adminMount, q.url)
                  /\ appended'[n + 2].statusCode = undefinedNumber
                  /\ appended'[n + 2].method = q.method
                  /\ appended'[n + 2].path = q.url
                  /\ appended'[n + 2].userId = appended'[n + 1].userId
                  /\ q.url[5] = "reject"
                       => appended'[n + 2].message =
                            (IF last'.body.reason = "dirty" THEN "Rejected: dirty"
                             ELSE "Rejected without reason")
                  /\ q.url[5] # "reject" => appended'[n + 2].message = undefined
            /\ last'.status # 200
               => /\ Len(appended') = n + 1
                  /\ SubSeq(appended', 1, n) = appended
                  /\ last'.sent = 1 /\ last'.logged = 0
                  /\ appended'[n + 1].statusCode = last'.status ]_vars

\* C27 witness: a rejection with a reason was answered 200 and the log ends
\* with its automatic record and then the explicit record with the note
C27_Witness ==
  /\ last.op = "adminCall" /\ last.q.url = hotelUrl("reject")
  /\ last.status = 200 /\ last.body.reason = "dirty"
  /\ Len(appended) = 2
  /\ appended[1].statusCode = 200 /\ appended[1].message = "dirty"
  /\ appended[2].statusCode = undefinedNumber
  /\ appended[2].message = "Rejected: dirty"
  /\ activities = appended

(***************************************************************************)
(* Every operation on the log side by side: requests that are recorded,    *)
(* among them the DELETE that clears, logActivity and clearActivityLogs    *)
(* called as functions, and the three read operations.                     *)
(***************************************************************************)
AppendOnlyCalls ==
  { [method |-> "PATCH", url |-> approveUrl],
    [method |-> "DELETE", url |-> logsUrl] }

AppendOnlyEntries ==
  { [EmptyEntry EXCEPT !.userId = "u_user", !.method = "POST",
                       !.path = <<"api", "auth", "login">>, !.statusCode = 200],
    [EmptyEntry EXCEPT !.userId = "u_admin", !.method = "GET",
                       !.path = <<"api", "admin", "users">>, !.timestamp = 1] }

InitAppendOnly == Start /\ client = [bearer |-> "jwt_admin", cookie |-> undefined]

AppendOnlyRequest ==
  \E c \in AppendOnlyCalls : HandleRequest(ApiClient(c.method, c.url), "found", 0)

AppendOnlyLogActivity == \E entry \in AppendOnlyEntries : LogActivity(entry)

AppendOnlyQuery == GetActivityLogsOf({undefined, "u_admin"}, {undefined}, {0, 1})

AppendOnlyLogins == GetLoginLogsOf({undefined, "u_user"}, {1})

NextAppendOnly ==
  \/ AppendOnlyRequest
  \/ AppendOnlyLogActivity
  \/ ClearActivityLogs
  \/ AppendOnlyQuery
  \/ AppendOnlyLogins
  \/ GetActivityStats

SpecAppendOnly == InitAppendOnly /\ [][NextAppendOnly]_vars

\* the step is a clear: clearActivityLogs called, or the DELETE that calls it
ClearStep ==
  \/ last'.op = "clear"
  \/ /\ last'.op = "request" /\ last'.q.method = "DELETE" /\ last'.q.url = logsUrl
     /\ last'.status = 200

\* C23: in every step the records that stay in the log stay as they are and
\* in their order: a step that is not a clear leaves the log followed by the
\* records it pushes, less as many records at the head as that exceeds the
\* capacity by; a clear leaves nothing of the log of before; and
\* getActivityLogs, getLoginLogs and getActivityStats leave the log as it is.
C23_AppendOnly ==
  [][ /\ last'.op \in {"getActivityLogs", "getLoginLogs", "getActivityStats"}
         => (activities' = activities /\ appended' = appended)
      /\ ~ClearStep
         => /\ Len(appended') >= Len(appended)
            /\ SubSeq(appended', 1, Len(appended)) = appended
            /\ LET n == Len(appended') - Len(appended)
                   k == IF Len(activities) + n > MAX_ACTIVITIES
                        THEN Len(activities) + n - MAX_ACTIVITIES ELSE 0
               IN activities' = SubSeq(activities, k + 1, Len(activities))
                                  \o SubSeq(appended', Len(appended) + 1, Len(appended'))
      /\ ClearStep => (Len(activities') <= 1 /\ activities' = appended') ]_vars

\* C23 witness: a query has run on a full log from which the head had been
\* evicted by an append, and the log holds the newest records in their order
C23_Witness ==
  /\ last.op = "getActivityLogs"
  /\ Len(appended) > MAX_ACTIVITIES
  /\ Len(activities) = MAX_ACTIVITIES
  /\ activities = LastN(appended, MAX_ACTIVITIES)
  /\ Len(last.result) >= 1

(***************************************************************************)
(* Requests in flight: approvals of three hotels arrive in any order, wait *)
(* for the database while the clock runs and other requests arrive, and    *)
(* are answered in any order.                                              *)
(***************************************************************************)
Hotels == {"h1", "h2", "h3"}

approveUrlOf(h) == <<"api", "admin", "hotels", h, "approve">>

InitInterleaved == Start /\ client \in AdminCallers

InterleavedArrive ==
  \E h \in Hotels, db \in {"found", "missing"} :
    Arrive(ApiClient("PATCH", approveUrlOf(h)), db)

InterleavedComplete == \E p \in inflight.pending : Complete(p)

NextInterleaved == InterleavedArrive \/ InterleavedComplete \/ Tick

SpecInterleaved == InitInterleaved /\ [][NextInterleaved]_vars

\* position i of the history holds the automatic record of the request for url
AutomaticAt(i, url) ==
  /\ appended[i].statusCode # undefinedNumber
  /\ appended[i].path \in {url, StripMount(adminMount, url)}

Recorded(url) == \E i \in 1..Len(appended) : AutomaticAt(i, url)

\* the position of the first automatic record of the request for url
RecordIndex(url) ==
  CHOOSE i \in 1..Len(appended) :
    AutomaticAt(i, url) /\ \A j \in 1..(i - 1) : ~AutomaticAt(j, url)

\* the position of url in a sequence of distinct urls that holds it
IndexIn(seq, url) == CHOOSE i \in 1..Len(seq) : seq[i] = url

\* C21: the automatic records are in the order in which the responses were
\* sent, whatever the order of arrival: a request that awaits its handler has
\* no record, a request that was answered has one, and of two answered
\* requests the record of A precedes the record of B exactly when A was
\* answered before B; the log is the tail of that history.
C21_FlushOrder ==
  /\ \A p \in inflight.pending : ~Recorded(p.q.url)
  /\ \A i \in 1..Len(inflight.flushed) : Recorded(inflight.flushed[i])
  /\ (\A i \in 1..Len(inflight.flushed) : Recorded(inflight.flushed[i]))
     => \A i, j \in 1..Len(inflight.flushed) :
          i < j <=> RecordIndex(inflight.flushed[i]) < RecordIndex(inflight.flushed[j])
  /\ activities = LastN(appended, MAX_ACTIVITIES)

\* C21 witness: the approval of h2 arrived before that of h1 and was answered
\* after it, a clock step later, and the record of h1 precedes that of h2
C21_Witness ==
  /\ Len(inflight.arrived) >= 2
  /\ inflight.arrived[1] = approveUrlOf("h2") /\ inflight.arrived[2] = approveUrlOf("h1")
  /\ Len(inflight.flushed) = 2
  /\ inflight.flushed = <<approveUrlOf("h1"), approveUrlOf("h2")>>
  /\ last.op = "complete" /\ last.q.url = approveUrlOf("h2") /\ last.duration > 0
  /\ Recorded(approveUrlOf("h1")) /\ Recorded(approveUrlOf("h2"))
  /\ RecordIndex(approveUrlOf("h1")) < RecordIndex(approveUrlOf("h2"))

====
